---- MODULE Spec2Model ----
(***************************************************************************)
(* Model of the purchasing-agent admin panel: the product repository       *)
(* (services/apiProducts.ts) talking to the remote data store, and the     *)
(* product form controller (hooks/useProductForm.ts).                      *)
(*                                                                         *)
(* A URL or a storage key is a sequence of string tokens (the pieces of    *)
(* the text between separators), so that the prefix test, the substring    *)
(* test and the regular-expression match of the code are computed on the   *)
(* text and not assumed.                                                   *)
(***************************************************************************)
EXTENDS Integers, Sequences, FiniteSets, TLC

\* ------------------------------------------------------------------ bounds
\* Number of product rows the store ever assigns an identifier to.
MaxProducts == 2
\* Number of files the user selects in one form session.
MaxFiles == 2
\* Number of file names uploadProductImage ever generates.
MaxUploads == 2

\* Number of product rows the list view fetches.
MaxRows == 3

\* ------------------------------------------------------------ input values
Sessions == {1, 2}

ProductIds == 1..MaxProducts

\* ProductVariant (types/products.ts): name, stock, price.
Red == [name |-> "Red", stock |-> 5, price |-> 12]
Blue == [name |-> "Blue", stock |-> 0, price |-> 10]

\* The variant lists passed by callers.
VariantLists == {<<>>, <<Red>>, <<Red, Blue>>}

\* ProductFormData.variants is optional: a present list or undefined.
VariantArgs ==
    {[defined |-> TRUE, list |-> v] : v \in VariantLists}
        \cup {[defined |-> FALSE, list |-> <<>>]}

\* The bucket of the object storage and the path prefix of its keys.
Bucket == "productImage"

\* https://xxx.supabase.co/storage/v1/object/public/productImage/<key>
StorageBase == <<"https:", "xxx.supabase.co", "storage", "v1", "object", "public">>

PublicUrl(key) == StorageBase \o <<Bucket>> \o key

KeyA == <<"products", "a.jpg">>
KeyB == <<"products", "b.jpg">>

\* An image reference that is not an object of the storage bucket.
ExternalUrl == <<"https:", "img.daisyui.com", "images", "cat.webp">>

\* The productImages values passed by callers of the repository.
\* ProductFormData without variants: the scalar fields are represented by
\* productName, the image list is kept as it is.
ProductFields ==
    {[productName |-> "Hat", productImages |-> <<PublicUrl(KeyA)>>],
     [productName |-> "Cap", productImages |-> <<ExternalUrl, PublicUrl(KeyB)>>],
     [productName |-> "Cap", productImages |-> <<>>]}

\* Product rows as getProducts returns them (select("*")): the columns the
\* list view reads. Two rows were created at the same instant, written with
\* different offsets; identifiers are texts.
Rows ==
    {[id |-> <<"9">>, productName |-> <<"H", "a", "t">>, productTags |-> "Apparel",
      inventoryQuantity |-> 5, created_at |-> <<1, 10, 0>>],
     [id |-> <<"1", "0">>, productName |-> <<"h", "a", "t", "s">>,
      productTags |-> "Storage", inventoryQuantity |-> 3, created_at |-> <<1, 12, 2>>],
     [id |-> <<"2">>, productName |-> <<"C", "a", "p">>, productTags |-> "Storage",
      inventoryQuantity |-> 5, created_at |-> <<1, 9, 0>>],
     [id |-> <<"1", "1">>, productName |-> <<"c", "a", "p", " ", "S">>,
      productTags |-> "", inventoryQuantity |-> 0, created_at |-> <<2, 0, 0>>]}

\* The texts typed into the search box.
SearchTerms ==
    {<<>>, <<" ">>, <<"h", "a", "t">>, <<"A">>, <<" ", "s">>, <<"a", "p", " ">>}

SortKeys == {"id", "qty", "created_at"}

\* ------------------------------------------------------------------- state
VARIABLES
    products,       \* table products: identifier -> row
    variants,       \* table variants: sequence of rows in insertion order
    storage,        \* object storage bucket: the set of keys stored
    nextId,         \* next identifier the server assigns to a product row
    pc,             \* per session: position in the repository function
    args,           \* per session: arguments of the call in progress
    local,          \* per session: local constants of the call (product, filePaths)
    calls,          \* per session: backend calls issued by the call, in order
    warned,         \* per session: toast.warning shown by the call
    variantsBefore, \* history: variant rows of the target product at call time
    mode,           \* form: "create" or "edit" ("none": no form is mounted)
    productId,      \* form: options.productId (0: undefined)
    initialData,    \* form: options.initialData
    form,           \* form: the field values (react-hook-form)
    pendingFiles,   \* form: useState<File[]>
    isUploading,    \* form: useState(false)
    stage,          \* form: position of handleSubmit ("idle": not running)
    data,           \* form: the field values handleSubmit was called with
    uploads,        \* form: the uploads of the running submission, one per file
    background,     \* uploads of an aborted submission still in flight (keys)
    nextBlob,       \* number of the next object URL / selected file
    nextUpload,     \* number of the next generated file name
    navigated,      \* form: navigate({ to: "/products" }) was called
    invalidated,    \* form: the cached product list was invalidated
    uploadedFiles,  \* history: the uploads whose URLs the running submission sent
    resolved,       \* per session: the value getProduct resolved to
    productToDelete,\* list view: useState, the product of the dialog (0: null)
    mutation,       \* list view: status of deleteMutation
    listInvalidated,\* list view: invalidateQueries(["products"]) was called
    toast,          \* list view: the toast its callbacks showed last
    fetched,        \* list view: data of useQuery(["products"])
    searchTerm,     \* list view: useState("")
    filterCategory, \* list view: useState("全部")
    sortKey,        \* list view: useState("created_at")
    sortAsc         \* list view: useState(false)

formVars == <<mode, productId, initialData, form, pendingFiles, isUploading, stage,
              data, uploads, background, nextBlob, nextUpload, navigated, invalidated,
              uploadedFiles>>

viewVars == <<resolved, productToDelete, mutation, listInvalidated, toast>>

listVars == <<fetched, searchTerm, filterCategory, sortKey, sortAsc>>

pageVars == <<viewVars, listVars>>

repoVars == <<products, variants, storage, nextId, pc, args, local,
              calls, warned, variantsBefore>>

\* ----------------------------------------------------------------- helpers
\* useForm defaultValues when there is no initialData (lines 62-73).
DefaultValues ==
    [productName |-> "", productImages |-> <<>>,
     variants |-> [defined |-> TRUE, list |-> <<>>]]

\* options.initialData undefined.
NoData ==
    [productName |-> "undefined", productImages |-> <<>>,
     variants |-> [defined |-> FALSE, list |-> <<>>]]

\* The rows of table variants that reference product id, in table order.
VariantRowsOf(id) == SelectSeq(variants, LAMBDA r : r.product_id = id)

\* A variant row seen as the caller's ProductVariant (name, stock, price).
AsVariant(r) == [name |-> r.name, stock |-> r.stock, price |-> r.price]

VariantsOf(id) ==
    [i \in 1..Len(VariantRowsOf(id)) |-> AsVariant(VariantRowsOf(id)[i])]

NoArgs == [fn |-> "none", id |-> 0,
           productData |-> [productName |-> "", productImages |-> <<>>],
           variants |-> [defined |-> FALSE, list |-> <<>>]]

NoLocal == [id |-> 0, productImages |-> <<>>, filePaths |-> <<>>]

\* One backend call as the remote data store received it.
Call(op, table, id, rows, keys, ok) ==
    [op |-> op, table |-> table, id |-> id, rows |-> rows, keys |-> keys, ok |-> ok]

Idle(s) == pc[s] \in {"idle", "returned", "thrown"}

\* A session enters a repository function: the history of the previous call
\* is dropped.
Enter(s, label, a) ==
    /\ pc' = [pc EXCEPT ![s] = label]
    /\ args' = [args EXCEPT ![s] = a]
    /\ local' = [local EXCEPT ![s] = NoLocal]
    /\ calls' = [calls EXCEPT ![s] = <<>>]
    /\ warned' = [warned EXCEPT ![s] = FALSE]
    /\ variantsBefore' = [variantsBefore EXCEPT ![s] = VariantsOf(a.id)]

Log(s, c) == calls' = [calls EXCEPT ![s] = Append(@, c)]

Goto(s, label) == pc' = [pc EXCEPT ![s] = label]

\* ------------------------------------------------- createProducts (6-37)
\* Mutant: the variant insert is issued whatever the length of the list.
createInsertsVariantsAlways(vs) == TRUE

\* if (variants.length > 0)
createInsertsVariants(vs) == Len(vs) > 0

\* variants.map((v) => ({ ...v, product_id: product.id }))
variantsWithProductId(vs, pid) ==
    [i \in 1..Len(vs) |->
        [product_id |-> pid, name |-> vs[i].name, stock |-> vs[i].stock,
         price |-> vs[i].price]]

createProductsCall(s, pd, vs) ==
    /\ Idle(s)
    /\ nextId + Cardinality({t \in Sessions : pc[t] = "c_insert"}) <= MaxProducts
    /\ Enter(s, "c_insert",
             [fn |-> "create", id |-> 0, productData |-> pd,
              variants |-> [defined |-> TRUE, list |-> vs]])
    /\ UNCHANGED <<formVars, pageVars>>
    /\ UNCHANGED <<products, variants, storage, nextId>>

\* supabase.from("products").insert(productData).select().single()
createInsertProduct(s) ==
    /\ pc[s] = "c_insert"
    /\ \/ /\ products' = [i \in DOMAIN products \cup {nextId} |->
                            IF i = nextId THEN args[s].productData ELSE products[i]]
          /\ nextId' = nextId + 1
          /\ local' = [local EXCEPT ![s].id = nextId]
          /\ Log(s, Call("insert", "products", nextId, <<>>, <<>>, TRUE))
          /\ Goto(s, IF createInsertsVariants(args[s].variants.list)
                     THEN "c_variants" ELSE "returned")
       \/ /\ Log(s, Call("insert", "products", 0, <<>>, <<>>, FALSE))
          /\ Goto(s, "thrown")
          /\ UNCHANGED <<products, nextId, local>>
    /\ UNCHANGED <<formVars, pageVars>>
    /\ UNCHANGED <<variants, storage, args, warned, variantsBefore>>

\* supabase.from("variants").insert(variantsWithProductId)
createInsertVariants(s) ==
    /\ pc[s] = "c_variants"
    /\ LET rows == variantsWithProductId(args[s].variants.list, local[s].id)
       IN \/ /\ variants' = variants \o rows
             /\ Log(s, Call("insert", "variants", local[s].id, rows, <<>>, TRUE))
             /\ Goto(s, "returned")
          \/ /\ Log(s, Call("insert", "variants", local[s].id, rows, <<>>, FALSE))
             /\ Goto(s, "thrown")
             /\ UNCHANGED variants
    /\ UNCHANGED <<formVars, pageVars>>
    /\ UNCHANGED <<products, storage, nextId, args, local, warned,
                   variantsBefore>>

\* -------------------------------------------------- updateProduct (39-97)
\* if (variants)
updateHandlesVariants(v) == v.defined

\* Mutant: the variant insert is issued whatever the length of the list.
updateInsertsVariantsAlways(vs) == TRUE

\* if (variants.length > 0)
updateInsertsVariants(vs) == Len(vs) > 0

\* variants.map((variant) => ({ product_id: id, name, stock, price }))
variantsToInsert(vs, id) ==
    [i \in 1..Len(vs) |->
        [product_id |-> id, name |-> vs[i].name, stock |-> vs[i].stock,
         price |-> vs[i].price]]

\* Mutant: the delete matches no row (the new rows are added to the old).
deleteVariantsOfNone(rows, id) == rows

\* Mutant: the delete stops after the first matching row.
deleteVariantsOfFirst(rows, id) ==
    IF \E i \in 1..Len(rows) : rows[i].product_id = id
    THEN LET i == CHOOSE j \in 1..Len(rows) :
                    /\ rows[j].product_id = id
                    /\ \A k \in 1..(j - 1) : rows[k].product_id # id
         IN SubSeq(rows, 1, i - 1) \o SubSeq(rows, i + 1, Len(rows))
    ELSE rows

\* supabase.from("variants").delete().eq("product_id", id)
deleteVariantsOf(rows, id) == SelectSeq(rows, LAMBDA r : r.product_id # id)

updateProductCall(s, id, pd, v) ==
    /\ Idle(s)
    /\ Enter(s, "u_update",
             [fn |-> "update", id |-> id, productData |-> pd, variants |-> v])
    /\ UNCHANGED <<formVars, pageVars>>
    /\ UNCHANGED <<products, variants, storage, nextId>>

\* supabase.from("products").update(productFields).eq("id", id).select().single()
\* .single() is an error when no row has the identifier.
updateProductRow(s) ==
    /\ pc[s] = "u_update"
    /\ LET id == args[s].id
       IN \/ /\ id \in DOMAIN products
             /\ products' = [products EXCEPT ![id] = args[s].productData]
             /\ Log(s, Call("update", "products", id, <<>>, <<>>, TRUE))
             /\ Goto(s, IF updateHandlesVariants(args[s].variants)
                        THEN "u_delete" ELSE "returned")
          \/ /\ Log(s, Call("update", "products", id, <<>>, <<>>, FALSE))
             /\ Goto(s, "thrown")
             /\ UNCHANGED products
    /\ UNCHANGED <<formVars, pageVars>>
    /\ UNCHANGED <<variants, storage, nextId, args, local, warned,
                   variantsBefore>>

updateDeleteVariants(s) ==
    /\ pc[s] = "u_delete"
    /\ LET id == args[s].id
       IN \/ /\ variants' = deleteVariantsOf(variants, id)
             /\ Log(s, Call("delete", "variants", id, <<>>, <<>>, TRUE))
             /\ Goto(s, IF updateInsertsVariants(args[s].variants.list)
                        THEN "u_insert" ELSE "returned")
          \/ /\ Log(s, Call("delete", "variants", id, <<>>, <<>>, FALSE))
             /\ Goto(s, "thrown")
             /\ UNCHANGED variants
    /\ UNCHANGED <<formVars, pageVars>>
    /\ UNCHANGED <<products, storage, nextId, args, local, warned,
                   variantsBefore>>

updateInsertVariants(s) ==
    /\ pc[s] = "u_insert"
    /\ LET id == args[s].id
           rows == variantsToInsert(args[s].variants.list, id)
       IN \/ /\ variants' = variants \o rows
             /\ Log(s, Call("insert", "variants", id, rows, <<>>, TRUE))
             /\ Goto(s, "returned")
          \/ /\ Log(s, Call("insert", "variants", id, rows, <<>>, FALSE))
             /\ Goto(s, "thrown")
             /\ UNCHANGED variants
    /\ UNCHANGED <<formVars, pageVars>>
    /\ UNCHANGED <<products, storage, nextId, args, local, warned,
                   variantsBefore>>

\* ------------------------------------------------ deleteProduct (154-214)
\* url.match(/productImage\/(.+)$/): the leftmost occurrence of the bucket
\* name that is followed by text; match[1] is everything after it.
bucketAt(url) == {i \in 1..(Len(url) - 1) : url[i] = Bucket}

hasFilePath(url) == bucketAt(url) # {}

\* Mutant: the whole URL is taken as the storage key.
filePathWholeUrl(url) == url

filePath(url) ==
    LET i == CHOOSE j \in bucketAt(url) : \A k \in bucketAt(url) : j <= k
    IN SubSeq(url, i + 1, Len(url))

\* productImages.map(url => match ? match[1] : null).filter(Boolean)
filePathsOf(images) ==
    [i \in 1..Len(SelectSeq(images, hasFilePath)) |->
        filePath(SelectSeq(images, hasFilePath)[i])]

\* if (product?.productImages && product.productImages.length > 0) ...
\*   if (filePaths.length > 0)
deleteRemovesImages(images) == Len(images) > 0 /\ Len(filePathsOf(images)) > 0

deleteProductCall(s, id) ==
    /\ Idle(s)
    /\ Enter(s, "d_fetch", [NoArgs EXCEPT !.fn = "delete", !.id = id])
    /\ UNCHANGED <<formVars, pageVars>>
    /\ UNCHANGED <<products, variants, storage, nextId>>

\* supabase.from("products").select("productImages").eq("id", productId).single()
deleteFetchImages(s) ==
    /\ pc[s] = "d_fetch"
    /\ LET id == args[s].id
       IN \/ /\ id \in DOMAIN products
             /\ local' = [local EXCEPT ![s].productImages = products[id].productImages]
             /\ Log(s, Call("select", "products", id, <<>>, <<>>, TRUE))
             /\ Goto(s, "d_delete")
          \/ /\ Log(s, Call("select", "products", id, <<>>, <<>>, FALSE))
             /\ Goto(s, "thrown")
             /\ UNCHANGED local
    /\ UNCHANGED <<formVars, pageVars>>
    /\ UNCHANGED <<products, variants, storage, nextId, args, warned,
                   variantsBefore>>

\* supabase.from("products").delete().eq("id", productId), then the file
\* paths are computed from the fetched URLs. The variants of the product go
\* with the row if the schema cascades (comment at 168), which the
\* repository does not decide: both outcomes.
deleteProductRow(s) ==
    /\ pc[s] = "d_delete"
    /\ LET id == args[s].id
           images == local[s].productImages
       IN \/ /\ products' = [i \in DOMAIN products \ {id} |-> products[i]]
             /\ variants' \in {deleteVariantsOf(variants, id), variants}
             /\ Log(s, Call("delete", "products", id, <<>>, <<>>, TRUE))
             /\ IF deleteRemovesImages(images)
                THEN /\ local' = [local EXCEPT ![s].filePaths = filePathsOf(images)]
                     /\ Goto(s, "d_remove")
                ELSE /\ Goto(s, "returned")
                     /\ UNCHANGED local
          \/ /\ Log(s, Call("delete", "products", id, <<>>, <<>>, FALSE))
             /\ Goto(s, "thrown")
             /\ UNCHANGED <<products, variants, local>>
    /\ UNCHANGED <<formVars, pageVars>>
    /\ UNCHANGED <<storage, nextId, args, warned, variantsBefore>>

\* Mutant: a storage error of the removal is thrown like the other errors.
deleteRemoveImagesThrows(s) ==
    /\ pc[s] = "d_remove"
    /\ LET keys == local[s].filePaths
       IN \/ /\ storage' = storage \ {keys[i] : i \in 1..Len(keys)}
             /\ Log(s, Call("remove", "storage", args[s].id, <<>>, keys, TRUE))
             /\ Goto(s, "returned")
          \/ /\ Log(s, Call("remove", "storage", args[s].id, <<>>, keys, FALSE))
             /\ Goto(s, "thrown")
             /\ UNCHANGED storage
    /\ UNCHANGED <<formVars, pageVars>>
    /\ UNCHANGED <<products, variants, nextId, args, local, warned, variantsBefore>>

\* supabase.storage.from("productImage").remove(filePaths): an error is a
\* warning, the call still returns { success: true }.
deleteRemoveImages(s) ==
    /\ pc[s] = "d_remove"
    /\ LET keys == local[s].filePaths
       IN \/ /\ storage' = storage \ {keys[i] : i \in 1..Len(keys)}
             /\ Log(s, Call("remove", "storage", args[s].id, <<>>, keys, TRUE))
             /\ UNCHANGED warned
          \/ /\ Log(s, Call("remove", "storage", args[s].id, <<>>, keys, FALSE))
             /\ warned' = [warned EXCEPT ![s] = TRUE]
             /\ UNCHANGED storage
    /\ Goto(s, "returned")
    /\ UNCHANGED <<formVars, pageVars>>
    /\ UNCHANGED <<products, variants, nextId, args, local, variantsBefore>>

\* ------------------------------------------- useProductForm (hook, 56-208)
\* The browser session the form runs in.
FormSession == 1

\* URL.createObjectURL(file): a fresh "blob:" URL for every call.
createObjectURL(n) == <<"blob:", "http:", "localhost:5173", "u" \o ToString(n)>>

\* A File the user selected: the n-th selection, with its name.
File(n, ext) == [id |-> n, name |-> <<"photo", ext>>]

\* The FileList values of one selection (names by extension).
FileSelections == {<<>>, <<"jpg">>, <<"jpg", "png">>}

\* img?.startsWith("blob:")
startsWithBlob(img) == Len(img) > 0 /\ img[1] = "blob:"

\* Mutant: startsWith("supabase.co") instead of includes.
startsWithSupabase(img) == Len(img) > 0 /\ img[1] = "xxx.supabase.co"

\* typeof img === "string" && img.includes("supabase.co")
includesSupabase(img) == \E i \in 1..Len(img) : img[i] = "xxx.supabase.co"

\* blobUrls.indexOf(imageToRemove): first position, 0 for JavaScript's -1.
IndexOf(s, x) ==
    IF \E i \in 1..Len(s) : s[i] = x
    THEN CHOOSE i \in 1..Len(s) : s[i] = x /\ \A j \in 1..(i - 1) : s[j] # x
    ELSE 0

\* array.filter((_, i) => i !== index)
RemoveAt(s, index) ==
    [i \in 1..(Len(s) - (IF index \in 1..Len(s) THEN 1 ELSE 0)) |->
        IF i < index THEN s[i] ELSE s[i + 1]]

\* file.name.split(".").pop()
fileExt(file) == file.name[Len(file.name)]

\* `products/${Date.now()}-${random}.${fileExt}`
uploadFilePath(file, n) == <<"products", ToString(n) \o "." \o fileExt(file)>>

\* existingUrls: currentImages.filter(... img.includes("supabase.co"))
existingUrls(currentImages) == SelectSeq(currentImages, includesSupabase)

\* allImageUrls = [...existingUrls, ...uploadedUrls]
allImageUrls(currentImages, uploadedUrls) == existingUrls(currentImages) \o uploadedUrls

\* variants || []
variantsOrEmpty(v) == IF v.defined THEN v.list ELSE <<>>

\* mode === "edit" && productId
submitsUpdate == mode = "edit" /\ productId # 0

\* Steps 2-5 of handleSubmit (131-161): the image list is read from the form
\* now, the other fields are those handleSubmit was called with, and the
\* mutation calls the repository function.
Dispatch(submitted, uploadedUrls) ==
    LET productData == [productName |-> submitted.productName,
                        productImages |->
                            allImageUrls(form.productImages, uploadedUrls)]
        vs == [defined |-> TRUE, list |-> variantsOrEmpty(submitted.variants)]
    IN /\ stage' = "writing"
       /\ IF submitsUpdate
          THEN Enter(FormSession, "u_update",
                     [fn |-> "update", id |-> productId,
                      productData |-> productData, variants |-> vs])
          ELSE Enter(FormSession, "c_insert",
                     [fn |-> "create", id |-> 0,
                      productData |-> productData, variants |-> vs])

\* handleSubmit is called (116-129): the uploads of the pending files start;
\* without pending files nothing is awaited before the mutation.
handleSubmit ==
    /\ mode # "none" /\ ~navigated
    /\ stage = "idle" /\ ~isUploading
    /\ nextUpload + Len(pendingFiles) - 1 <= MaxUploads
    /\ submitsUpdate \/ nextId <= MaxProducts
    /\ isUploading' = TRUE
    /\ data' = form
    /\ IF Len(pendingFiles) > 0
       THEN /\ uploads' = [i \in 1..Len(pendingFiles) |->
                            [file |-> pendingFiles[i],
                             key |-> uploadFilePath(pendingFiles[i], nextUpload + i - 1),
                             status |-> "inflight"]]
            /\ nextUpload' = nextUpload + Len(pendingFiles)
            /\ stage' = "uploading"
            /\ UNCHANGED <<pc, args, local, calls, warned, variantsBefore>>
       ELSE /\ Dispatch(form, <<>>)
            /\ UNCHANGED <<uploads, nextUpload>>
    /\ UNCHANGED uploadedFiles
    /\ UNCHANGED <<products, variants, storage, nextId>>
    /\ UNCHANGED <<mode, productId, initialData, form, pendingFiles, background,
                   nextBlob, navigated, invalidated>>
    /\ UNCHANGED pageVars

\* Mutant: a failed upload is skipped (Promise.allSettled) and the write is
\* dispatched with the URLs uploaded so far.
uploadRejectedGoesOn(i) ==
    /\ Dispatch(data, [j \in 1..Len(SelectSeq(uploads, LAMBDA u : u.status = "ok")) |->
                          PublicUrl(SelectSeq(uploads, LAMBDA u : u.status = "ok")[j].key)])
    /\ background' = background \cup
          {uploads[j].key : j \in {k \in 1..Len(uploads) :
                                     k # i /\ uploads[k].status = "inflight"}}
    /\ uploads' = <<>>
    /\ uploadedFiles' = SelectSeq(uploads, LAMBDA u : u.status = "ok")
    /\ UNCHANGED <<storage, isUploading, data>>

\* Promise.all rejects with the first failed upload (127): catch (162-163),
\* finally (164-166); the other uploads go on with nobody awaiting them.
uploadRejected(i) ==
    /\ isUploading' = FALSE
    /\ stage' = "idle"
    /\ data' = DefaultValues
    /\ background' = background \cup
          {uploads[j].key : j \in {k \in 1..Len(uploads) :
                                     k # i /\ uploads[k].status = "inflight"}}
    /\ uploads' = <<>>
    /\ UNCHANGED <<storage, uploadedFiles>>
    /\ UNCHANGED <<pc, args, local, calls, warned, variantsBefore>>

\* uploadProductImage (119-152) of file i is answered by the storage. The
\* last success resolves Promise.all and the submission goes on; a failure
\* rejects it at once.
uploadProductImage(i) ==
    /\ stage = "uploading"
    /\ i \in 1..Len(uploads)
    /\ uploads[i].status = "inflight"
    /\ \/ /\ storage' = storage \cup {uploads[i].key}
          /\ IF \A j \in 1..Len(uploads) : j # i => uploads[j].status = "ok"
             THEN /\ Dispatch(data, [j \in 1..Len(uploads) |-> PublicUrl(uploads[j].key)])
                  /\ uploads' = <<>>
                  /\ uploadedFiles' = [uploads EXCEPT ![i].status = "ok"]
                  /\ UNCHANGED <<isUploading, background, data>>
             ELSE /\ uploads' = [uploads EXCEPT ![i].status = "ok"]
                  /\ UNCHANGED <<stage, isUploading, background, data, uploadedFiles>>
                  /\ UNCHANGED <<pc, args, local, calls, warned, variantsBefore>>
       \/ uploadRejected(i)
    /\ UNCHANGED <<products, variants, nextId>>
    /\ UNCHANGED <<mode, productId, initialData, form, pendingFiles,
                   nextBlob, nextUpload, navigated, invalidated>>
    /\ UNCHANGED pageVars

\* An upload of an aborted submission is answered: nobody awaits it.
backgroundUpload(key) ==
    /\ key \in background
    /\ background' = background \ {key}
    /\ \/ storage' = storage \cup {key}
       \/ UNCHANGED storage
    /\ UNCHANGED <<products, variants, nextId, pc, args, local, calls,
                   warned, variantsBefore>>
    /\ UNCHANGED <<mode, productId, initialData, form, pendingFiles, isUploading,
                   stage, data, uploads, nextBlob, nextUpload, navigated, invalidated>>
    /\ UNCHANGED pageVars
    /\ UNCHANGED uploadedFiles

\* createMutation / updateMutation onSuccess (88-93, 103-109), then finally.
mutationOnSuccess ==
    /\ stage = "writing"
    /\ pc[FormSession] = "returned"
    /\ invalidated' = TRUE
    /\ pendingFiles' = <<>>
    /\ navigated' = TRUE
    /\ isUploading' = FALSE
    /\ stage' = "idle"
    /\ data' = DefaultValues
    /\ UNCHANGED repoVars
    /\ UNCHANGED <<mode, productId, initialData, form, uploads, background,
                   nextBlob, nextUpload>>
    /\ UNCHANGED pageVars
    /\ uploadedFiles' = <<>>

\* Mutant: the success callback is registered as onSettled and runs after a
\* failed write as well.
mutationOnSettled ==
    /\ stage = "writing"
    /\ pc[FormSession] = "thrown"
    /\ invalidated' = TRUE
    /\ pendingFiles' = <<>>
    /\ navigated' = TRUE
    /\ isUploading' = FALSE
    /\ stage' = "idle"
    /\ data' = DefaultValues
    /\ UNCHANGED repoVars
    /\ UNCHANGED <<mode, productId, initialData, form, uploads, background,
                   nextBlob, nextUpload>>
    /\ UNCHANGED pageVars
    /\ uploadedFiles' = <<>>

\* onError (94-97, 110-113), then catch and finally of handleSubmit.
mutationOnError ==
    /\ stage = "writing"
    /\ pc[FormSession] = "thrown"
    /\ isUploading' = FALSE
    /\ stage' = "idle"
    /\ data' = DefaultValues
    /\ UNCHANGED repoVars
    /\ UNCHANGED <<mode, productId, initialData, form, pendingFiles, uploads,
                   background, nextBlob, nextUpload, navigated, invalidated>>
    /\ UNCHANGED pageVars
    /\ uploadedFiles' = <<>>

\* Mutant: setPendingFiles(newFiles) replaces the pending files instead of
\* appending to them.
handleImageSelectReplaces(exts) ==
    /\ mode # "none" /\ ~navigated
    /\ nextBlob + Len(exts) - 1 <= MaxFiles
    /\ IF Len(exts) = 0
       THEN UNCHANGED <<pendingFiles, form, nextBlob>>
       ELSE LET newFiles == [i \in 1..Len(exts) |-> File(nextBlob + i - 1, exts[i])]
                previewUrls == [i \in 1..Len(exts) |-> createObjectURL(newFiles[i].id)]
            IN /\ pendingFiles' = newFiles
               /\ form' = [form EXCEPT !.productImages = @ \o previewUrls]
               /\ nextBlob' = nextBlob + Len(exts)
    /\ UNCHANGED repoVars
    /\ UNCHANGED <<mode, productId, initialData, isUploading, stage, data, uploads,
                   background, nextUpload, navigated, invalidated>>
    /\ UNCHANGED pageVars
    /\ UNCHANGED uploadedFiles

\* handleImageSelect (169-178).
handleImageSelect(exts) ==
    /\ mode # "none" /\ ~navigated
    /\ nextBlob + Len(exts) - 1 <= MaxFiles
    /\ IF Len(exts) = 0
       THEN UNCHANGED <<pendingFiles, form, nextBlob>>
       ELSE LET newFiles == [i \in 1..Len(exts) |-> File(nextBlob + i - 1, exts[i])]
                previewUrls == [i \in 1..Len(exts) |-> createObjectURL(newFiles[i].id)]
            IN /\ pendingFiles' = pendingFiles \o newFiles
               /\ form' = [form EXCEPT !.productImages = @ \o previewUrls]
               /\ nextBlob' = nextBlob + Len(exts)
    /\ UNCHANGED repoVars
    /\ UNCHANGED <<mode, productId, initialData, isUploading, stage, data, uploads,
                   background, nextUpload, navigated, invalidated>>
    /\ UNCHANGED pageVars
    /\ UNCHANGED uploadedFiles

\* Mutant: the pending file is dropped by the index in the image list, not
\* by the index among the blob URLs.
pendingAfterRemoveByIndex(currentImages, index) ==
    IF index \in 1..Len(currentImages) /\ startsWithBlob(currentImages[index])
    THEN RemoveAt(pendingFiles, index)
    ELSE pendingFiles

\* The pending files after removeImage(index) (180-193).
pendingAfterRemove(currentImages, index) ==
    IF index \in 1..Len(currentImages) /\ startsWithBlob(currentImages[index])
    THEN LET blobUrls == SelectSeq(currentImages, startsWithBlob)
             blobIndex == IndexOf(blobUrls, currentImages[index])
         IN IF blobIndex # 0 THEN RemoveAt(pendingFiles, blobIndex) ELSE pendingFiles
    ELSE pendingFiles

\* removeImage (180-197); index counts from 1 here.
removeImage(index) ==
    /\ mode # "none" /\ ~navigated
    /\ index \in 1..(Len(form.productImages) + 1)
    /\ pendingFiles' = pendingAfterRemove(form.productImages, index)
    /\ form' = [form EXCEPT !.productImages = RemoveAt(@, index)]
    /\ UNCHANGED repoVars
    /\ UNCHANGED <<mode, productId, initialData, isUploading, stage, data, uploads,
                   background, nextBlob, nextUpload, navigated, invalidated>>
    /\ UNCHANGED pageVars
    /\ UNCHANGED uploadedFiles

\* getProduct (107-117): the product row joined with its variants.
getProduct(id) ==
    [productName |-> products[id].productName,
     productImages |-> products[id].productImages,
     variants |-> [defined |-> TRUE, list |-> VariantsOf(id)]]

\* useEffect (79-84): a new initialData resets the form and the pending files.
resetFromInitialData ==
    /\ mode = "edit" /\ ~navigated
    /\ productId \in DOMAIN products
    /\ getProduct(productId) # initialData
    /\ initialData' = getProduct(productId)
    /\ form' = getProduct(productId)
    /\ pendingFiles' = <<>>
    /\ UNCHANGED repoVars
    /\ UNCHANGED <<mode, productId, isUploading, stage, data, uploads, background,
                   nextBlob, nextUpload, navigated, invalidated>>
    /\ UNCHANGED pageVars
    /\ UNCHANGED uploadedFiles

\* ------------------------------------------------- getProduct (107-117)
\* What getProduct resolved to: data, which is null when the select failed.
NoResult == [isNull |-> TRUE, row |-> NoData]

getProductCall(s, id) ==
    /\ Idle(s)
    /\ Enter(s, "g_select", [NoArgs EXCEPT !.fn = "get", !.id = id])
    /\ resolved' = [resolved EXCEPT ![s] = NoResult]
    /\ UNCHANGED <<products, variants, storage, nextId>>
    /\ UNCHANGED <<formVars, listVars>>
    /\ UNCHANGED <<productToDelete, mutation, listInvalidated, toast>>

\* supabase.from("products").select("*,variants(*)").eq("id", productId)
\* .single(): the joined row, or an error with data null when no row
\* matches or the request fails. if (error) only logs; return data.
getProductSelect(s) ==
    /\ pc[s] = "g_select"
    /\ LET id == args[s].id
       IN \/ /\ id \in DOMAIN products
             /\ Log(s, Call("select", "products", id, <<>>, <<>>, TRUE))
             /\ resolved' = [resolved EXCEPT ![s] =
                                [isNull |-> FALSE, row |-> getProduct(id)]]
          \/ /\ Log(s, Call("select", "products", id, <<>>, <<>>, FALSE))
             /\ resolved' = [resolved EXCEPT ![s] = NoResult]
    /\ Goto(s, "returned")
    /\ UNCHANGED <<products, variants, storage, nextId, args, local, warned,
                   variantsBefore>>
    /\ UNCHANGED <<formVars, listVars>>
    /\ UNCHANGED <<productToDelete, mutation, listInvalidated, toast>>

\* ------------------------------------------ list view (routes/products/)
\* The value of filterCategory that shows every category: "全部" (23, 69),
\* written in ASCII here.
AllCategories == "all"

\* The list view before anything was fetched or clicked (lines 13-33).
NoPage ==
    /\ resolved = [s \in Sessions |-> NoResult]
    /\ productToDelete = 0
    /\ mutation = "idle"
    /\ listInvalidated = FALSE
    /\ toast = "none"
    /\ fetched = <<>>
    /\ searchTerm = <<>>
    /\ filterCategory = AllCategories
    /\ sortKey = "created_at"
    /\ sortAsc = FALSE

\* The browser session the list view runs in.
ViewSession == 1

\* handleDeleteClick (106-110): the dialog opens for the product.
handleDeleteClick(id) ==
    /\ mutation # "pending"
    /\ productToDelete' = id
    /\ UNCHANGED <<repoVars, formVars, listVars>>
    /\ UNCHANGED <<resolved, mutation, listInvalidated, toast>>

\* handleConfirmDelete (113-117): deleteMutation.mutate(productToDelete.id)
\* enters deleteProduct (mutationFn, 37).
handleConfirmDelete ==
    /\ productToDelete # 0
    /\ mutation # "pending"
    /\ Idle(ViewSession)
    /\ Enter(ViewSession, "d_fetch",
             [NoArgs EXCEPT !.fn = "delete", !.id = productToDelete])
    /\ mutation' = "pending"
    /\ UNCHANGED <<products, variants, storage, nextId>>
    /\ UNCHANGED <<resolved, productToDelete, listInvalidated, toast>>
    /\ UNCHANGED <<formVars, listVars>>

\* deleteMutation onSuccess (38-47): deleteProduct resolved.
deleteOnSuccess ==
    /\ mutation = "pending"
    /\ pc[ViewSession] = "returned"
    /\ listInvalidated' = TRUE
    /\ toast' = "success"
    /\ mutation' = "success"
    /\ UNCHANGED <<repoVars, formVars, listVars>>
    /\ UNCHANGED <<resolved, productToDelete>>

\* deleteMutation onError (48-50): deleteProduct rejected.
deleteOnError ==
    /\ mutation = "pending"
    /\ pc[ViewSession] = "thrown"
    /\ toast' = "error"
    /\ mutation' = "error"
    /\ UNCHANGED <<repoVars, formVars, listVars>>
    /\ UNCHANGED <<resolved, productToDelete, listInvalidated>>

\* ------------------------------ list view: filter and sort (53-103)
\* A text is the sequence of its characters.
UpperCase == <<"A", "C", "H", "S", "T">>
LowerCase == <<"a", "c", "h", "s", "t">>

\* String.prototype.toLowerCase
toLowerCase(text) ==
    [i \in 1..Len(text) |->
        IF \E k \in 1..Len(UpperCase) : UpperCase[k] = text[i]
        THEN LowerCase[CHOOSE k \in 1..Len(UpperCase) : UpperCase[k] = text[i]]
        ELSE text[i]]

\* String.prototype.includes
includes(text, search) ==
    \E i \in 0..(Len(text) - Len(search)) :
        SubSeq(text, i + 1, i + Len(search)) = search

\* String.prototype.trim: the text without its leading and trailing blanks.
trim(text) ==
    LET inked == {i \in 1..Len(text) : text[i] # " "}
    IN IF inked = {} THEN <<>>
       ELSE SubSeq(text, CHOOSE i \in inked : \A j \in inked : i <= j,
                         CHOOSE i \in inked : \A j \in inked : j <= i)

\* created_at is an ISO text <<day, hour, offset>> ("...T<hour>:00+<offset>:00");
\* new Date(created_at).getTime() is its instant in milliseconds.
getTime(created_at) ==
    (created_at[1] * 24 + created_at[2] - created_at[3]) * 3600000

\* The order of the code units of the characters identifiers are made of.
CodeUnits == <<"0", "1", "2", "3", "4", "5", "6", "7", "8", "9">>

charCode(c) == CHOOSE k \in 1..Len(CodeUnits) : CodeUnits[k] = c

\* a < b on two strings: the comparison of their code units, left to right.
RECURSIVE stringLess(_, _)
stringLess(a, b) ==
    IF Len(b) = 0 THEN FALSE
    ELSE IF Len(a) = 0 THEN TRUE
    ELSE IF a[1] # b[1] THEN charCode(a[1]) < charCode(b[1])
    ELSE stringLess(Tail(a), Tail(b))

\* a[sortKey] (82-83): the property of the row, undefined when the row has
\* no property of that name.
property(row, key) ==
    IF key \in DOMAIN row
    THEN [defined |-> TRUE, value |-> row[key]]
    ELSE [defined |-> FALSE, value |-> <<>>]

\* aVal < bVal (86-87): false when a side is undefined.
lessThan(key, aVal, bVal) ==
    /\ aVal.defined /\ bVal.defined
    /\ IF key = "id" THEN stringLess(aVal.value, bVal.value)
       ELSE aVal.value < bVal.value

\* Mutant: the comparator orders ascending whatever the direction.
compareFnAscending(a, b, key, asc) ==
    LET aVal == IF key = "created_at"
                THEN [defined |-> TRUE, value |-> getTime(a.created_at)]
                ELSE property(a, key)
        bVal == IF key = "created_at"
                THEN [defined |-> TRUE, value |-> getTime(b.created_at)]
                ELSE property(b, key)
    IN IF lessThan(key, aVal, bVal) THEN 1
       ELSE IF lessThan(key, bVal, aVal) THEN -1
       ELSE 0

\* The comparator given to list.sort (74-89).
compareFn(a, b, key, asc) ==
    LET aVal == IF key = "created_at"
                THEN [defined |-> TRUE, value |-> getTime(a.created_at)]
                ELSE property(a, key)
        bVal == IF key = "created_at"
                THEN [defined |-> TRUE, value |-> getTime(b.created_at)]
                ELSE property(b, key)
    IN IF lessThan(key, aVal, bVal) THEN (IF asc THEN -1 ELSE 1)
       ELSE IF lessThan(key, bVal, aVal) THEN (IF asc THEN 1 ELSE -1)
       ELSE 0

\* Array.prototype.sort (74): stable. An element comes after the elements
\* the comparator puts before it and after the earlier elements the
\* comparator does not tell from it.
sort(list, key, asc) ==
    LET before(i) ==
            {j \in 1..Len(list) :
                \/ compareFn(list[j], list[i], key, asc) < 0
                \/ compareFn(list[j], list[i], key, asc) = 0 /\ j < i}
    IN [k \in 1..Len(list) |->
           list[CHOOSE i \in 1..Len(list) : Cardinality(before(i)) = k - 1]]

\* Mutant: the search term is compared as typed, not lower-cased.
matchesSearchAsTyped(p, term) ==
    Len(trim(term)) > 0 => includes(toLowerCase(p.productName), term)

\* if (searchTerm.trim()) list.filter(... includes(searchTerm.toLowerCase()))
matchesSearch(p, term) ==
    Len(trim(term)) > 0 => includes(toLowerCase(p.productName), toLowerCase(term))

\* if (filterCategory !== "全部") list.filter(p.productTags === filterCategory)
matchesCategory(p, category) ==
    category # AllCategories => p.productTags = category

\* The body of the useMemo (53-92).
FilteredProducts(list, term, category, key, asc) ==
    IF Len(list) = 0 THEN <<>>
    ELSE sort(SelectSeq(SelectSeq(list, LAMBDA p : matchesSearch(p, term)),
                        LAMBDA p : matchesCategory(p, category)),
              key, asc)

filteredProducts ==
    FilteredProducts(fetched, searchTerm, filterCategory, sortKey, sortAsc)

\* handleSort (95-103).
handleSort(key) ==
    /\ IF sortKey = key
       THEN sortAsc' = ~sortAsc /\ UNCHANGED sortKey
       ELSE sortKey' = key /\ UNCHANGED sortAsc
    /\ UNCHANGED <<fetched, searchTerm, filterCategory>>
    /\ UNCHANGED <<repoVars, formVars, viewVars>>

\* onChange of the search box (147).
setSearchTerm(term) ==
    /\ searchTerm' = term
    /\ UNCHANGED <<fetched, filterCategory, sortKey, sortAsc>>
    /\ UNCHANGED <<repoVars, formVars, viewVars>>

\* onChange of the tag select (154-165): the options are the sentinel and
\* the non-empty tags of the fetched products.
setFilterCategory(category) ==
    /\ \/ category = AllCategories
       \/ /\ category # ""
          /\ \E i \in 1..Len(fetched) : fetched[i].productTags = category
    /\ filterCategory' = category
    /\ UNCHANGED <<fetched, searchTerm, sortKey, sortAsc>>
    /\ UNCHANGED <<repoVars, formVars, viewVars>>

\* ---------------------------------------------------------- specifications
\* No form is mounted.
NoForm ==
    /\ mode = "none"
    /\ productId = 0
    /\ initialData = NoData
    /\ form = DefaultValues
    /\ pendingFiles = <<>>
    /\ isUploading = FALSE
    /\ stage = "idle"
    /\ data = DefaultValues
    /\ uploads = <<>>
    /\ background = {}
    /\ nextBlob = 1
    /\ nextUpload = 1
    /\ navigated = FALSE
    /\ invalidated = FALSE
    /\ uploadedFiles = <<>>

InitRepo ==
    /\ products = <<>>
    /\ variants = <<>>
    /\ storage = {KeyA, KeyB}
    /\ nextId = 1
    /\ pc = [s \in Sessions |-> "idle"]
    /\ args = [s \in Sessions |-> NoArgs]
    /\ local = [s \in Sessions |-> NoLocal]
    /\ calls = [s \in Sessions |-> <<>>]
    /\ warned = [s \in Sessions |-> FALSE]
    /\ variantsBefore = [s \in Sessions |-> <<>>]
    /\ NoForm
    /\ NoPage

\* One backend call of a repository function is answered.
RepoStep(s) ==
    \/ createInsertProduct(s)
    \/ createInsertVariants(s)
    \/ updateProductRow(s)
    \/ updateDeleteVariants(s)
    \/ updateInsertVariants(s)
    \/ deleteFetchImages(s)
    \/ deleteProductRow(s)
    \/ deleteRemoveImages(s)

RepoCall(s) ==
    \/ \E pd \in ProductFields, vs \in VariantLists : createProductsCall(s, pd, vs)
    \/ \E id \in ProductIds, pd \in ProductFields, v \in VariantArgs :
          updateProductCall(s, id, pd, v)
    \/ \E id \in ProductIds : deleteProductCall(s, id)

\* Calls one after the other, each awaited before the next: one session.
NextSeq ==
    \/ RepoCall(1)
    \/ RepoStep(1)

\* Two sessions each call updateProduct once; the backend answers the calls
\* of the two in any order.
NextRace ==
    \E s \in Sessions :
        \/ /\ pc[s] = "idle"
           /\ \E id \in ProductIds, pd \in ProductFields, v \in VariantArgs :
                 updateProductCall(s, id, pd, v)
        \/ updateProductRow(s)
        \/ updateDeleteVariants(s)
        \/ updateInsertVariants(s)

vars == <<repoVars, formVars, pageVars>>

Spec == InitRepo /\ [][NextSeq]_vars

\* The store holds one product with its variants when the two sessions start.
InitRace ==
    /\ \E pd \in ProductFields : products = (1 :> pd)
    /\ \E vs \in VariantLists : variants = variantsWithProductId(vs, 1)
    /\ storage = {KeyA, KeyB}
    /\ nextId = 2
    /\ pc = [s \in Sessions |-> "idle"]
    /\ args = [s \in Sessions |-> NoArgs]
    /\ local = [s \in Sessions |-> NoLocal]
    /\ calls = [s \in Sessions |-> <<>>]
    /\ warned = [s \in Sessions |-> FALSE]
    /\ variantsBefore = [s \in Sessions |-> <<>>]
    /\ NoForm
    /\ NoPage

SpecRace == InitRace /\ [][NextRace]_vars

\* A form is mounted on a store that holds one product: the create page, or
\* the edit page of that product.
InitForm ==
    /\ \E images \in {<<PublicUrl(KeyB), PublicUrl(KeyA)>>,
                        <<ExternalUrl, PublicUrl(KeyB)>>} :
          products = (1 :> [productName |-> "Hat", productImages |-> images])
    /\ variants = variantsWithProductId(<<Red>>, 1)
    /\ storage = {KeyA, KeyB}
    /\ nextId = 2
    /\ pc = [s \in Sessions |-> "idle"]
    /\ args = [s \in Sessions |-> NoArgs]
    /\ local = [s \in Sessions |-> NoLocal]
    /\ calls = [s \in Sessions |-> <<>>]
    /\ warned = [s \in Sessions |-> FALSE]
    /\ variantsBefore = [s \in Sessions |-> <<>>]
    /\ mode \in {"create", "edit"}
    /\ productId = IF mode = "edit" THEN 1 ELSE 0
    /\ initialData = IF mode = "edit" THEN getProduct(1) ELSE NoData
    /\ \/ mode = "edit" /\ form = getProduct(1)
       \/ /\ mode = "create" /\ products[1].productImages[1] = ExternalUrl
          /\ \E vs \in {<<>>, <<Red>>} :
                form = [DefaultValues EXCEPT !.variants.list = vs]
    /\ pendingFiles = <<>>
    /\ isUploading = FALSE
    /\ stage = "idle"
    /\ data = DefaultValues
    /\ uploads = <<>>
    /\ background = {}
    /\ nextBlob = 1
    /\ nextUpload = 1
    /\ navigated = FALSE
    /\ invalidated = FALSE
    /\ uploadedFiles = <<>>
    /\ NoPage

\* The form as the pages mount it: initialData is the value given at mount
\* (create.tsx 17 gives none), so the effect of lines 79-84 has run once, in
\* InitForm.
NextForm ==
    \/ handleSubmit
    \/ \E i \in 1..MaxFiles : uploadProductImage(i)
    \/ \E key \in background : backgroundUpload(key)
    \/ createInsertProduct(FormSession)
    \/ createInsertVariants(FormSession)
    \/ updateProductRow(FormSession)
    \/ updateDeleteVariants(FormSession)
    \/ updateInsertVariants(FormSession)
    \/ mutationOnSuccess
    \/ mutationOnError
    \/ \E exts \in FileSelections : handleImageSelect(exts)
    \/ \E index \in 1..(MaxFiles + 3) : removeImage(index)

SpecForm == InitForm /\ [][NextForm]_vars

\* The form whose caller also hands it a refetched initialData while it is
\* mounted: the effect of lines 79-84 runs again.
NextFormRefetch ==
    \/ NextForm
    \/ resetFromInitialData

SpecFormRefetch == InitForm /\ [][NextFormRefetch]_vars

\* The list view deletes products of a store that holds some, and a page
\* reads one product with getProduct; each call is awaited before the next.
InitView ==
    /\ \E pd1 \in ProductFields, pd2 \in ProductFields :
          products \in {(1 :> pd1), (1 :> pd1) @@ (2 :> pd2)}
    /\ \E vs \in VariantLists : variants = variantsWithProductId(vs, 1)
    /\ storage = {KeyA, KeyB}
    /\ nextId = 3
    /\ pc = [s \in Sessions |-> "idle"]
    /\ args = [s \in Sessions |-> NoArgs]
    /\ local = [s \in Sessions |-> NoLocal]
    /\ calls = [s \in Sessions |-> <<>>]
    /\ warned = [s \in Sessions |-> FALSE]
    /\ variantsBefore = [s \in Sessions |-> <<>>]
    /\ NoForm
    /\ NoPage

NextView ==
    \/ \E id \in ProductIds : handleDeleteClick(id)
    \/ handleConfirmDelete
    \/ deleteFetchImages(ViewSession)
    \/ deleteProductRow(ViewSession)
    \/ deleteRemoveImages(ViewSession)
    \/ deleteOnSuccess
    \/ deleteOnError
    \/ /\ mutation # "pending"
       /\ \E id \in ProductIds : getProductCall(ViewSession, id)
    \/ getProductSelect(ViewSession)

SpecView == InitView /\ [][NextView]_vars

\* The list view over a fetched collection: rows of distinct identifiers in
\* any order (getProducts asks for no order).
InitList ==
    /\ products = <<>>
    /\ variants = <<>>
    /\ storage = {KeyA, KeyB}
    /\ nextId = 1
    /\ pc = [s \in Sessions |-> "idle"]
    /\ args = [s \in Sessions |-> NoArgs]
    /\ local = [s \in Sessions |-> NoLocal]
    /\ calls = [s \in Sessions |-> <<>>]
    /\ warned = [s \in Sessions |-> FALSE]
    /\ variantsBefore = [s \in Sessions |-> <<>>]
    /\ NoForm
    /\ resolved = [s \in Sessions |-> NoResult]
    /\ productToDelete = 0
    /\ mutation = "idle"
    /\ listInvalidated = FALSE
    /\ toast = "none"
    /\ fetched \in UNION {[1..n -> Rows] : n \in 0..MaxRows}
    /\ \A i, j \in 1..Len(fetched) : i # j => fetched[i].id # fetched[j].id
    /\ searchTerm = <<>>
    /\ filterCategory = AllCategories
    /\ sortKey = "created_at"
    /\ sortAsc = FALSE

NextList ==
    \/ \E key \in SortKeys : handleSort(key)
    \/ \E term \in SearchTerms : setSearchTerm(term)
    \/ \E category \in {AllCategories} \cup {r.productTags : r \in Rows} :
          setFilterCategory(category)

SpecList == InitList /\ [][NextList]_vars

\* ================================================================== claims
OfSession(s, fn) == args[s].fn = fn

Last(s) == s[Len(s)]

\* The backend call is the given operation on the given table and product.
IsCall(c, op, table, id) == c.op = op /\ c.table = table /\ c.id = id

\* C1: after a successful updateProduct(id, fields, V), V any list (the empty
\* one included), the variant rows stored for the product are exactly V
\* (name, stock, price per row, in order), whatever rows existed before; so a
\* second call with the same V, which finds V stored, leaves V stored.
C1_UpdateStoresExactlyV ==
    \A s \in Sessions :
        (pc[s] = "returned" /\ OfSession(s, "update") /\ args[s].variants.defined)
            => VariantsOf(args[s].id) = args[s].variants.list

\* C1 witness: a successful update with a non-empty V of a product that
\* already stored exactly V (the second call with the same V).
C1_Witness ==
    \E s \in Sessions :
        /\ pc[s] = "returned" /\ OfSession(s, "update")
        /\ args[s].variants.defined
        /\ args[s].variants.list = <<Red, Blue>>
        /\ variantsBefore[s] = <<Red, Blue>>

\* C2: createProducts issues one product insert; a variant insert follows
\* only if the list is non-empty and the product insert succeeded, there is
\* exactly one, and each of its rows is the caller's variant with product_id
\* the identifier of the product just created.
C2_CreateInserts ==
    \A s \in Sessions :
        OfSession(s, "create") =>
            LET log == calls[s]
                vs == args[s].variants.list
            IN /\ Len(log) <= 2
               /\ Len(log) >= 1 => log[1].op = "insert" /\ log[1].table = "products"
               /\ Len(log) = 2 =>
                    /\ log[1].ok
                    /\ log[1].id = local[s].id
                    /\ IsCall(log[2], "insert", "variants", log[1].id)
                    /\ vs # <<>>
                    /\ Len(log[2].rows) = Len(vs)
                    /\ \A i \in 1..Len(vs) :
                          /\ log[2].rows[i].product_id = log[1].id
                          /\ AsVariant(log[2].rows[i]) = vs[i]
               /\ pc[s] = "returned" =>
                    /\ Len(log) = (IF vs = <<>> THEN 1 ELSE 2)
                    /\ \A i \in 1..Len(log) : log[i].ok
               /\ pc[s] = "thrown" => Len(log) >= 1 /\ ~Last(log).ok

\* C2 witness: a create with one variant returned after both inserts.
C2_Witness ==
    \E s \in Sessions :
        /\ pc[s] = "returned" /\ OfSession(s, "create")
        /\ args[s].variants.list = <<Red>>
        /\ Len(calls[s]) = 2
        /\ calls[s][2].rows[1].product_id = calls[s][1].id

\* The shape of the backend calls of an updateProduct call that handles
\* variants: update, then delete, then insert iff the list is non-empty.
UpdateCallsInOrder(s) ==
    LET log == calls[s]
        id == args[s].id
        vs == args[s].variants.list
    IN /\ Len(log) <= 3
       /\ Len(log) >= 1 => IsCall(log[1], "update", "products", id)
       /\ Len(log) >= 2 => log[1].ok /\ IsCall(log[2], "delete", "variants", id)
       /\ Len(log) = 3 =>
            /\ log[2].ok /\ vs # <<>>
            /\ IsCall(log[3], "insert", "variants", id)
            /\ [i \in 1..Len(log[3].rows) |-> AsVariant(log[3].rows[i])] = vs
       /\ pc[s] = "returned" =>
            /\ Len(log) = (IF vs = <<>> THEN 2 ELSE 3)
            /\ \A i \in 1..Len(log) : log[i].ok

\* C3 as stated: every updateProduct call whose product-row update succeeded
\* goes on to delete the variant rows (and inserts iff the list is non-empty).
C3_AsStated ==
    \A s \in Sessions : OfSession(s, "update") => UpdateCallsInOrder(s)

\* C3 (amended): an updateProduct call given a variants list, empty or not,
\* issues after a successful product-row update the delete of all variant
\* rows of the product, and after a successful delete the insert iff the
\* list is non-empty (2 variants to 0: the delete and no insert); a call
\* whose productData carries no variants returns after the product-row update
\* with no delete and no insert.
C3_UpdateDeletesThenInserts ==
    \A s \in Sessions :
        OfSession(s, "update") =>
            IF args[s].variants.defined
            THEN UpdateCallsInOrder(s)
            ELSE /\ Len(calls[s]) <= 1
                 /\ pc[s] = "returned" =>
                        /\ Len(calls[s]) = 1 /\ calls[s][1].ok
                        /\ VariantsOf(args[s].id) = variantsBefore[s]

\* C3 witness: an update from two variants to none returned after the
\* delete, with no insert.
C3_Witness ==
    \E s \in Sessions :
        /\ pc[s] = "returned" /\ OfSession(s, "update")
        /\ args[s].variants.defined /\ args[s].variants.list = <<>>
        /\ variantsBefore[s] = <<Red, Blue>>
        /\ Len(calls[s]) = 2
        /\ calls[s][2].op = "delete"

\* The images of a product that are objects of the bucket, in order.
BucketImages(images) ==
    SelectSeq(images, LAMBDA u : \E k \in {KeyA, KeyB} : u = PublicUrl(k))

\* C4: deleteProduct fetches the image list, then deletes the row, and only
\* after the row delete succeeded issues one storage removal whose keys are
\* the parts of the image URLs after the bucket name; a failed fetch or row
\* delete propagates and no removal is issued.
C4_DeleteOrder ==
    \A s \in Sessions :
        OfSession(s, "delete") =>
            LET log == calls[s]
                id == args[s].id
                images == local[s].productImages
            IN /\ Len(log) <= 3
               /\ Len(log) >= 1 => IsCall(log[1], "select", "products", id)
               /\ Len(log) >= 2 => log[1].ok /\ IsCall(log[2], "delete", "products", id)
               /\ Len(log) = 3 =>
                    /\ log[2].ok
                    /\ id \notin DOMAIN products
                    /\ IsCall(log[3], "remove", "storage", id)
                    /\ Len(log[3].keys) = Len(BucketImages(images))
                    /\ \A j \in 1..Len(log[3].keys) :
                          PublicUrl(log[3].keys[j]) = BucketImages(images)[j]
               /\ pc[s] = "returned" =>
                    /\ Len(log) = (IF BucketImages(images) = <<>> THEN 2 ELSE 3)
                    /\ log[1].ok /\ log[2].ok
               /\ pc[s] = "thrown" =>
                    /\ Len(log) \in {1, 2}
                    /\ ~Last(log).ok

\* C4 witness: the product with the single image products/a.jpg was deleted
\* and one removal of that key was issued.
C4_Witness ==
    \E s \in Sessions :
        /\ pc[s] = "returned" /\ OfSession(s, "delete")
        /\ local[s].productImages = <<PublicUrl(KeyA)>>
        /\ Len(calls[s]) = 3
        /\ calls[s][3].keys = <<KeyA>>

\* A step of the running submission before the write is dispatched.
UploadPhaseStep ==
    /\ stage # "writing" /\ stage' # "writing"
    /\ uploads' # uploads \/ isUploading' # isUploading

\* An upload of the running submission is answered and the object is not
\* stored: the upload failed.
UploadFailedStep ==
    stage = "uploading" /\ uploads' # uploads /\ storage' = storage

\* C5: when an upload of a submission fails the submission is aborted: no
\* repository function is entered, the pending files and the field values
\* are left as they are by this and by every earlier step of the submission,
\* isUploading is false again and navigate is not called.
C5_UploadFailureAborts ==
    [][/\ UploadFailedStep =>
            /\ stage' = "idle"
            /\ isUploading /\ ~isUploading'
            /\ pc' = pc /\ args' = args /\ calls' = calls
            /\ ~navigated'
            /\ products' = products /\ variants' = variants
       /\ UploadPhaseStep =>
            /\ pendingFiles' = pendingFiles
            /\ form' = form
            /\ navigated' = navigated
            /\ pc' = pc /\ calls' = calls]_vars

\* C5 witness: uploads were started, no repository function was ever entered
\* and the form is idle again with its pending files.
C5_Witness ==
    /\ mode = "create"
    /\ nextUpload = 3
    /\ stage = "idle" /\ ~isUploading /\ ~navigated
    /\ pc[FormSession] = "idle"
    /\ Len(pendingFiles) = 2
    /\ Len(form.productImages) = 2

\* The repository write of the submission is settled.
WriteSettledStep == stage = "writing" /\ stage' # "writing"

\* C6: the pending files are cleared, the product list invalidated and the
\* user sent to the list when the repository write succeeded, and only then:
\* a failed write leaves the field values and the pending files as they are
\* and does not navigate; navigation happens on no other step.
C6_ClearAndNavigateIffWritten ==
    /\ [][/\ WriteSettledStep =>
               IF pc[FormSession] = "returned"
               THEN /\ pendingFiles' = <<>>
                    /\ invalidated' /\ navigated'
                    /\ ~isUploading'
               ELSE /\ pc[FormSession] = "thrown"
                    /\ pendingFiles' = pendingFiles
                    /\ form' = form
                    /\ navigated' = navigated /\ invalidated' = invalidated
                    /\ ~isUploading'
          /\ (navigated' # navigated \/ invalidated' # invalidated) =>
               WriteSettledStep /\ pc[FormSession] = "returned"
          /\ (stage = "writing" /\ stage' = "writing" /\ pc' # pc) =>
               form' = form /\ pendingFiles' = pendingFiles]_vars
    /\ [](navigated => pc[FormSession] = "returned" /\ invalidated)

\* C6 witness: an edit whose two uploaded images were written: the pending
\* files are cleared and the user is on the list.
C6_Witness ==
    /\ mode = "edit"
    /\ navigated /\ invalidated
    /\ pendingFiles = <<>>
    /\ nextUpload = 3
    /\ Len(args[FormSession].productData.productImages) >= 3
    /\ pc[FormSession] = "returned" /\ OfSession(FormSession, "update")

\* A URL of an object of the remote storage.
IsPersisted(u) ==
    /\ Len(u) > Len(StorageBase) + 1
    /\ SubSeq(u, 1, Len(StorageBase) + 1) = StorageBase \o <<Bucket>>

\* C7: a submission with no pending files whose image list holds persisted
\* URLs only sends that list to the repository as it is: same entries, same
\* order.
C7_ReconcileKeepsPersisted ==
    [][(/\ stage = "idle" /\ stage' = "writing"
        /\ pendingFiles = <<>>
        /\ \A i \in 1..Len(form.productImages) : IsPersisted(form.productImages[i]))
          => args'[FormSession].productData.productImages = form.productImages]_vars

\* C7 witness: the write of a form with two persisted images and no pending
\* file is in flight.
C7_Witness ==
    /\ stage = "writing"
    /\ nextUpload = 1 /\ nextBlob = 1
    /\ form.productImages = <<PublicUrl(KeyB), PublicUrl(KeyA)>>
    /\ args[FormSession].productData.productImages = form.productImages

\* The entry is the preview of the n-th selected file.
IsPreviewOf(u, n) == u = createObjectURL(n)

IsLocalPreview(u) == \E n \in 1..(MaxFiles + 1) : IsPreviewOf(u, n)

\* C8: in every state of a mounted form and for every index i of the image
\* list, removeImage(i) yields the list without entry i; if entry i is a
\* local preview the pending files lose exactly the file at the same position
\* among the local previews (the file previewed) and every persisted URL
\* stays; if entry i is a persisted URL the pending files are unchanged.
C8_RemoveImage ==
    (mode # "none" /\ ~navigated) =>
        \A i \in 1..Len(form.productImages) :
            LET imgs == form.productImages
                after == RemoveAt(imgs, i)
                pend == pendingAfterRemove(imgs, i)
                k == Cardinality({j \in 1..i : IsLocalPreview(imgs[j])})
            IN /\ Len(after) = Len(imgs) - 1
               /\ \A j \in 1..Len(after) : after[j] = IF j < i THEN imgs[j] ELSE imgs[j + 1]
               /\ IF IsLocalPreview(imgs[i])
                  THEN /\ Len(pend) = Len(pendingFiles) - 1
                       /\ k \in 1..Len(pendingFiles)
                       /\ IsPreviewOf(imgs[i], pendingFiles[k].id)
                       /\ \A j \in 1..Len(pend) :
                             pend[j] = IF j < k THEN pendingFiles[j] ELSE pendingFiles[j + 1]
                       /\ \A j \in 1..Len(imgs) :
                             ~IsLocalPreview(imgs[j]) =>
                                 \E m \in 1..Len(after) : after[m] = imgs[j]
                  ELSE pend = pendingFiles

\* C8 witness: two files were selected on an edit form that shows a persisted
\* URL, and the preview of the first was removed: the second file is the one
\* pending file left.
C8_Witness ==
    /\ mode = "edit" /\ ~navigated
    /\ nextBlob = 3
    /\ pc[FormSession] = "idle"
    /\ Len(pendingFiles) = 1 /\ pendingFiles[1].id = 2
    /\ form.productImages = <<PublicUrl(KeyA), createObjectURL(2)>>

\* Both sessions returned from updateProduct on the same product, each with
\* a variants list.
BothUpdated(id) ==
    \A s \in Sessions :
        /\ pc[s] = "returned" /\ OfSession(s, "update")
        /\ args[s].id = id /\ args[s].variants.defined

\* C9 as stated: after both calls the stored variants are those of one call.
C9_AsStated ==
    \A id \in ProductIds :
        BothUpdated(id) =>
            VariantsOf(id) \in {args[s].variants.list : s \in Sessions}

\* C9 (amended): after both calls completed successfully the stored variants
\* of the product are the list of one of the two calls or the list of one
\* followed by the list of the other (both inserts after the later delete).
C9_LastDeleteWins ==
    \A id \in ProductIds :
        BothUpdated(id) =>
            VariantsOf(id) \in
                {args[s].variants.list : s \in Sessions}
                    \cup UNION {{args[s].variants.list \o args[t].variants.list :
                                   t \in Sessions \ {s}} : s \in Sessions}

\* C9 witness: both calls returned and the product holds the rows of both.
C9_Witness ==
    /\ BothUpdated(1)
    /\ args[1].variants.list = <<Red>>
    /\ args[2].variants.list = <<Red, Blue>>
    /\ VariantsOf(1) = <<Red, Red, Blue>>

\* C10: a failed step makes updateProduct throw without the later steps and
\* without undoing the earlier ones: after a failed insert the product has no
\* variants and keeps the updated row; after a failed delete it keeps its
\* variants and the updated row; after a failed row update nothing else was
\* issued.
C10_UpdateFailure ==
    \A s \in Sessions :
        (OfSession(s, "update") /\ pc[s] = "thrown") =>
            LET log == calls[s]
                id == args[s].id
            IN /\ Len(log) \in 1..3
               /\ ~Last(log).ok
               /\ \A i \in 1..(Len(log) - 1) : log[i].ok
               /\ Len(log) = 3 =>
                    /\ log[3].op = "insert"
                    /\ VariantsOf(id) = <<>>
                    /\ products[id] = args[s].productData
               /\ Len(log) = 2 =>
                    /\ log[2].op = "delete"
                    /\ VariantsOf(id) = variantsBefore[s]
                    /\ products[id] = args[s].productData
               /\ Len(log) = 1 =>
                    /\ log[1].op = "update"
                    /\ VariantsOf(id) = variantsBefore[s]

\* C10 witness: the insert failed after the delete of two variants: the call
\* threw and the product has none.
C10_Witness ==
    \E s \in Sessions :
        /\ OfSession(s, "update") /\ pc[s] = "thrown"
        /\ Len(calls[s]) = 3
        /\ variantsBefore[s] = <<Red, Blue>>
        /\ VariantsOf(args[s].id) = <<>>

\* The getProduct call of the session is over.
GetProductOver(s) == OfSession(s, "get") /\ pc[s] \in {"returned", "thrown"}

\* C11 as stated: a getProduct(id) call for which no product row matches id
\* fails (it does not return a normal result), and a call whose select found
\* the row returns the row joined with its variants.
C11_GetProductFailsWhenMissing ==
    \A s \in Sessions :
        GetProductOver(s) =>
            IF args[s].id \in DOMAIN products
            THEN Last(calls[s]).ok =>
                    /\ pc[s] = "returned"
                    /\ resolved[s] = [isNull |-> FALSE, row |-> getProduct(args[s].id)]
            ELSE pc[s] = "thrown"

\* The stored-image removal of the list view's deleteProduct call failed.
ImageRemovalFailed ==
    /\ OfSession(ViewSession, "delete")
    /\ Len(calls[ViewSession]) = 3
    /\ IsCall(calls[ViewSession][3], "remove", "storage", args[ViewSession].id)
    /\ ~calls[ViewSession][3].ok

\* C12: when the stored-image removal of deleteProduct fails, the product row
\* is already deleted and the failure is not propagated: the call returns its
\* success result with a warning shown, the only callback of deleteMutation
\* that can run is onSuccess, and once it ran the product list is invalidated
\* and the success toast shown, never the error toast.
C12_ImageRemovalFailureNotPropagated ==
    ImageRemovalFailed =>
        /\ pc[ViewSession] = "returned"
        /\ warned[ViewSession]
        /\ calls[ViewSession][2].ok
        /\ args[ViewSession].id \notin DOMAIN products
        /\ mutation \in {"pending", "success"}
        /\ mutation = "pending" => (ENABLED deleteOnSuccess) /\ ~(ENABLED deleteOnError)
        /\ mutation = "success" => listInvalidated /\ toast = "success"

C12_Witness ==
    /\ ImageRemovalFailed
    /\ mutation = "success"
    /\ listInvalidated
    /\ storage = {KeyA, KeyB}

\* The items of a list, as a set.
Items(list) == {list[i] : i \in 1..Len(list)}

\* Every item of the list is an item of the collection, none twice.
IsSubCollection(list, collection) ==
    /\ Items(list) \subseteq Items(collection)
    /\ \A i, j \in 1..Len(list) : i # j => list[i] # list[j]

AscendingByTime(list) ==
    \A i \in 1..(Len(list) - 1) :
        getTime(list[i].created_at) <= getTime(list[i + 1].created_at)

DescendingByTime(list) ==
    \A i \in 1..(Len(list) - 1) :
        getTime(list[i].created_at) >= getTime(list[i + 1].created_at)

\* handleSort("created_at") while the list is sorted by creation time,
\* descending.
ToggleCreatedAt ==
    /\ sortKey = "created_at" /\ ~sortAsc
    /\ handleSort("created_at")

\* C13: with the list sorted by creation time descending, handleSort of the
\* same key keeps the key, makes the direction ascending and displays the
\* same items (none added, none removed) in ascending creation-time order;
\* and for every sort key and direction the displayed list is a
\* sub-collection of the fetched one (fetched items only, none twice) of the
\* same length as the list displayed now.
C13_ToggleAndSubCollection ==
    /\ [][ToggleCreatedAt =>
            /\ DescendingByTime(filteredProducts)
            /\ sortKey' = "created_at" /\ sortAsc'
            /\ Items(filteredProducts') = Items(filteredProducts)
            /\ Len(filteredProducts') = Len(filteredProducts)
            /\ AscendingByTime(filteredProducts')]_vars
    /\ [](\A key \in SortKeys, asc \in BOOLEAN :
            LET list == FilteredProducts(fetched, searchTerm, filterCategory, key, asc)
            IN /\ IsSubCollection(list, fetched)
               /\ Len(list) = Len(filteredProducts))

\* Toggled to ascending creation time: a filtered list of several items
\* with different instants, shorter than the fetched collection.
C13_Witness ==
    /\ sortKey = "created_at" /\ sortAsc
    /\ Len(filteredProducts) >= 2
    /\ Len(filteredProducts) < Len(fetched)
    /\ getTime(filteredProducts[1].created_at)
          < getTime(filteredProducts[Len(filteredProducts)].created_at)

\* The position of a fetched product in the fetched collection.
FetchedAt(p) == CHOOSE i \in 1..Len(fetched) : fetched[i] = p

\* The key value of a is <= that of b: identifier and inventory quantity as
\* raw values, creation time as parsed timestamps.
KeyLessEq(key, a, b) ==
    CASE key = "id" -> a.id = b.id \/ stringLess(a.id, b.id)
      [] key = "qty" -> a.inventoryQuantity <= b.inventoryQuantity
      [] key = "created_at" -> getTime(a.created_at) <= getTime(b.created_at)

\* The displayed list is ordered by the key in the direction, products of
\* equal key in their fetched order.
OrderedBy(list, key, asc) ==
    /\ \A i \in 1..(Len(list) - 1) :
          IF asc THEN KeyLessEq(key, list[i], list[i + 1])
          ELSE KeyLessEq(key, list[i + 1], list[i])
    /\ \A i, j \in 1..Len(list) :
          (i < j /\ KeyLessEq(key, list[i], list[j]) /\ KeyLessEq(key, list[j], list[i]))
              => FetchedAt(list[i]) < FetchedAt(list[j])

\* C14 as stated: whatever the sort key (identifier, quantity, creation time)
\* and the direction, the displayed list is ordered by that key, ascending or
\* descending, and products of equal key keep their original relative order.
C14_OrderedByEveryKey == OrderedBy(filteredProducts, sortKey, sortAsc)

\* Two characters are the same letter, whatever their case.
SameLetter(c, d) == toLowerCase(<<c>>) = toLowerCase(<<d>>)

\* The name contains the term as a case-insensitive substring.
ContainsIgnoringCase(name, term) ==
    \E offset \in 0..(Len(name) - Len(term)) :
        \A k \in 1..Len(term) : SameLetter(name[offset + k], term[k])

\* The tag condition: the sentinel passes every product.
HasTag(p, category) == category = AllCategories \/ p.productTags = category

\* The term is empty or made of blanks only.
IsBlank(term) == \A k \in 1..Len(term) : term[k] = " "

NoneTwice(list) == \A i, j \in 1..Len(list) : i # j => list[i] # list[j]

\* C15 as stated: the displayed list holds exactly the fetched products whose
\* name contains the search term as a case-insensitive substring and whose
\* tag equals the tag filter, the sentinel bypassing the tag condition.
C15_AsStated ==
    /\ Items(filteredProducts) =
          {p \in Items(fetched) :
              ContainsIgnoringCase(p.productName, searchTerm) /\ HasTag(p, filterCategory)}
    /\ NoneTwice(filteredProducts)

\* C15, amended: the displayed list holds exactly the fetched products whose
\* tag passes the tag filter and whose name contains the search term as a
\* case-insensitive substring, a search term that is empty or only blanks
\* bypassing the name condition.
C15_ExactlyTheMatches ==
    /\ Items(filteredProducts) =
          {p \in Items(fetched) :
              /\ IsBlank(searchTerm) \/ ContainsIgnoringCase(p.productName, searchTerm)
              /\ HasTag(p, filterCategory)}
    /\ NoneTwice(filteredProducts)

\* An upper-case term against lower-case names under a tag filter: some
\* products are displayed, some are not.
C15_Witness ==
    /\ searchTerm = <<"A">>
    /\ filterCategory = "Storage"
    /\ Len(filteredProducts) >= 1
    /\ Len(filteredProducts) < Len(fetched)
    /\ \E i \in 1..Len(fetched) :
          fetched[i].productTags = "Storage" /\ fetched[i] \in Items(filteredProducts)

\* The local previews of an image list, in list order, and its other entries.
LocalPreviews(images) == SelectSeq(images, IsLocalPreview)

PersistedEntries(images) == SelectSeq(images, LAMBDA u : ~IsLocalPreview(u))

\* a is b with some entries left out.
IsSubsequence(a, b) ==
    \E f \in [1..Len(a) -> 1..Len(b)] :
        /\ \A i \in 1..Len(a) : a[i] = b[f[i]]
        /\ \A i, j \in 1..Len(a) : i < j => f[i] < f[j]

\* C16: as long as no submission of the mounted form has succeeded (after
\* any selections, removals and failed submissions), the image list holds as
\* many local previews as there are pending files, the k-th local preview is
\* the preview of the k-th pending file, the pending files are in selection
\* order, and the other entries are persisted URLs of the product, in their
\* order.
C16_PreviewsAlignedWithPending ==
    (mode # "none" /\ ~navigated) =>
        LET previews == LocalPreviews(form.productImages)
        IN /\ Len(previews) = Len(pendingFiles)
           /\ \A k \in 1..Len(pendingFiles) : IsPreviewOf(previews[k], pendingFiles[k].id)
           /\ \A j, k \in 1..Len(pendingFiles) :
                 j < k => pendingFiles[j].id < pendingFiles[k].id
           /\ IsSubsequence(PersistedEntries(form.productImages),
                            initialData.productImages)

\* After a failed submission of a form from which the first selected file
\* was removed: the second one is still pending, next to a persisted URL.
C16_Witness ==
    /\ mode = "edit" /\ ~navigated
    /\ stage = "idle" /\ pc[FormSession] = "thrown"
    /\ Len(pendingFiles) = 1 /\ pendingFiles[1].id = 2
    /\ Len(form.productImages) = 2
    /\ IsPreviewOf(form.productImages[2], 2)

\* The image list the repository function of the form was called with.
SentImages == args[FormSession].productData.productImages

\* The step takes the file off the pending files.
LeavesPending(f) == f \in Items(pendingFiles) /\ f \notin Items(pendingFiles')

\* The step is a removeImage.
ExplicitRemoval == \E index \in 1..(MaxFiles + 3) : removeImage(index)

\* The step ends a successful submission which uploaded the file and sent
\* its persisted URL to the repository.
SubmittedWith(f) ==
    /\ mutationOnSuccess
    /\ \E k \in 1..Len(uploadedFiles) :
          /\ uploadedFiles[k].file = f
          /\ PublicUrl(uploadedFiles[k].key) \in Items(SentImages)

\* The step dispatches the repository write of a submission.
WriteDispatched == stage # "writing" /\ stage' = "writing"

\* C17 as stated: whatever selections and removals happen while a submission
\* is in flight, a pending file leaves the pending files only by a
\* removeImage or by a successful submission that uploaded it and sent its
\* URL, and the uploaded URLs of the image list sent to the repository are
\* those of files still pending when the write is dispatched.
C17_PendingLeavesOnlyUploaded ==
    [][/\ \A f \in Items(pendingFiles) :
             LeavesPending(f) => ExplicitRemoval \/ SubmittedWith(f)
       /\ WriteDispatched =>
             \A k \in 1..Len(uploadedFiles') :
                 uploadedFiles'[k].file \in Items(pendingFiles)]_vars

====
